---- MODULE Spec2Model ----
(***************************************************************************)
(* Model of the video pipeline of aws-prime-video-xray-clone: the Step     *)
(* Functions state machine defined in cdk_prime_video_xray_stack.py and    *)
(* the three Lambda state classes it drives (ConvertVideoToImages,         *)
(* ProcessImages, ArrangeFinalResults) over one S3 bucket and one DynamoDB *)
(* table.                                                                  *)
(*                                                                         *)
(* Text is modelled as a sequence of tokens: a token is an atomic piece of *)
(* text ("results", "/", ".mp4", "raw", one decimal digit, ...), chosen so *)
(* that the separators the code searches for ("/", ".mp4", "raw") are      *)
(* tokens themselves.  str.split and str.replace then act token-wise.      *)
(*                                                                         *)
(* One execution of the state machine is modelled, started on an empty     *)
(* table and a bucket that holds at most the uploaded video.               *)
(*                                                                         *)
(* VideoCutterS3 is called by ConvertVideoToImages with an interface       *)
(* (input_video_name argument, upload_distributed_map_to_s3, and           *)
(* S3Helper.upload_object) that the sources at hand do not define; those   *)
(* members, DynamoDBHelper, the Success class and the Lambda entry point   *)
(* state_machine_handler are modelled from their call sites and the design *)
(* document.                                                               *)
(***************************************************************************)
EXTENDS Integers, Sequences, FiniteSets, TLC

-----------------------------------------------------------------------------
(* Bounds of the model *)

\* largest number of decodable frames of an uploaded video
MaxFrames == 3
\* largest native frame rate of an uploaded video (frames per second)
MaxFps == 2
\* largest number of celebrity faces in one recognition response
MaxFaces == 1
\* longest video, in seconds, of the extraction runs
MaxSeconds == 10
\* largest sampling interval, in seconds, of the extraction runs
MaxFrameRate == 2
MaxDigits == 5
\* most extractions of one video in the repeated-extraction runs
MaxRuns == 2

-----------------------------------------------------------------------------
(* Python values *)

\* Python's None where the model needs it among integers
PyNone == -1
\* a correlation id that is absent from an event (None or "", both falsy)
NoCorrelationId == 0
\* the correlation id a caller put in the triggering event
SuppliedCorrelationId == -7
\* the bucket of the deployment (S3_BUCKET_NAME)
BucketName == "bucket"

-----------------------------------------------------------------------------
(* Text as token sequences *)

DigitChars == <<"0", "1", "2", "3", "4", "5", "6", "7", "8", "9">>

\* position of the first occurrence of tok in s at or after position i, 0 if none
RECURSIVE IndexFrom(_, _, _)
IndexFrom(s, tok, i) ==
    IF i > Len(s) THEN 0
    ELSE IF s[i] = tok THEN i
    ELSE IndexFrom(s, tok, i + 1)

\* position of the last occurrence of tok in s at or before position i, 0 if none
RECURSIVE LastIndexFrom(_, _, _)
LastIndexFrom(s, tok, i) ==
    IF i < 1 THEN 0
    ELSE IF s[i] = tok THEN i
    ELSE LastIndexFrom(s, tok, i - 1)

\* s.split(sep)[-1]
SplitLast(s, sep) ==
    LET i == LastIndexFrom(s, sep, Len(s))
    IN  SubSeq(s, i + 1, Len(s))

\* s.split(sep)[0]
SplitFirst(s, sep) ==
    LET i == IndexFrom(s, sep, 1)
    IN  IF i = 0 THEN s ELSE SubSeq(s, 1, i - 1)

\* s.replace(old, new): every occurrence is replaced
StrReplace(s, old, new) ==
    [i \in 1..Len(s) |-> IF s[i] = old THEN new ELSE s[i]]

\* s.startswith(prefix)
StartsWith(s, prefix) ==
    /\ Len(prefix) <= Len(s)
    /\ SubSeq(s, 1, Len(prefix)) = prefix

\* str(n) for n >= 0, as digit tokens
RECURSIVE Decimal(_)
Decimal(n) ==
    IF n < 10 THEN <<DigitChars[n + 1]>>
    ELSE Decimal(n \div 10) \o <<DigitChars[(n % 10) + 1]>>

\* "0" * k
RECURSIVE Zeros(_)
Zeros(k) == IF k <= 0 THEN <<>> ELSE <<"0">> \o Zeros(k - 1)

\* f"{n}": the digits without padding
Pad5Unpadded(n) == Decimal(n)

\* f"{n:05}" for an integer n >= 0: zero-padded on the left to width 5,
\* longer when n has more than five digits
Pad5(n) == Zeros(5 - Len(Decimal(n))) \o Decimal(n)

\* the value of one digit token
DigitValue(tok) == (CHOOSE d \in 1..10 : DigitChars[d] = tok) - 1

\* int(s) for a sequence of digit tokens
RECURSIVE ParseInt(_)
ParseInt(s) ==
    IF Len(s) = 0 THEN 0
    ELSE 10 * ParseInt(SubSeq(s, 1, Len(s) - 1)) + DigitValue(s[Len(s)])

\* tokens that begin with "." or "/", the bytes just below "0"
PunctuationTokens == {"/", ".jpg", ".mp4"}

\* rank of a token in the byte order of keys: "." and "/" sort before the
\* digits, the digits before letters
TokenRank(tok) ==
    IF \E d \in 1..10 : DigitChars[d] = tok THEN DigitValue(tok)
    ELSE IF tok \in PunctuationTokens THEN -1
    ELSE 10

\* a < b in the lexicographic byte order DynamoDB uses for string sort keys
RECURSIVE LexLess(_, _)
LexLess(a, b) ==
    IF Len(b) = 0 THEN FALSE
    ELSE IF Len(a) = 0 THEN TRUE
    ELSE IF TokenRank(a[1]) # TokenRank(b[1]) THEN TokenRank(a[1]) < TokenRank(b[1])
    ELSE LexLess(Tail(a), Tail(b))

-----------------------------------------------------------------------------
(* Python floats (IEEE 754 binary64, round to nearest even)                *)
(*                                                                         *)
(* cv2 reports the frame rate as a double and the extraction loop adds and *)
(* divides doubles.  A non-negative double is kept as a significand m and  *)
(* an exponent e, standing for m * 2^e with m < 2^53; m is a natural       *)
(* number of arbitrary size, held as its limbs in base 2^15, lowest limb   *)
(* first and no zero limb on top.  Exponent range and subnormals play no   *)
(* part for frame rates and frame counts.                                  *)

\* bits of a limb, and the base 2^15
LimbBits == 15
LimbBase == 32768
\* bits of the significand of a double
DoubleBits == 53

Limb(a, i) == IF i <= Len(a) THEN a[i] ELSE 0

\* a without the zero limbs on top
BigTrim(a) ==
    IF \A i \in 1..Len(a) : a[i] = 0 THEN <<>>
    ELSE SubSeq(a, 1, CHOOSE i \in 1..Len(a) :
                          a[i] # 0 /\ \A j \in (i + 1)..Len(a) : a[j] = 0)

\* the limbs of an integer 0 <= n < 2^31
BigFromInt(n) ==
    BigTrim(<<n % LimbBase, (n \div LimbBase) % LimbBase, n \div (LimbBase * LimbBase)>>)

\* the value of a, for a below 2^31
BigToInt(a) == Limb(a, 1) + LimbBase * Limb(a, 2) + LimbBase * LimbBase * Limb(a, 3)

\* a + b: limb i receives a carry when a lower limb overflows and every limb
\* in between is full
BigAdd(a, b) ==
    LET n == IF Len(a) > Len(b) THEN Len(a) ELSE Len(b)
        carry(i) == \E j \in 1..(i - 1) :
                        /\ Limb(a, j) + Limb(b, j) >= LimbBase
                        /\ \A k \in (j + 1)..(i - 1) :
                               Limb(a, k) + Limb(b, k) = LimbBase - 1
    IN  BigTrim([i \in 1..(n + 1) |->
                    (Limb(a, i) + Limb(b, i) + (IF carry(i) THEN 1 ELSE 0)) % LimbBase])

\* a - b for a >= b: limb i lends when a lower limb falls short and every
\* limb in between is level
BigSub(a, b) ==
    LET borrow(i) == \E j \in 1..(i - 1) :
                         /\ Limb(a, j) < Limb(b, j)
                         /\ \A k \in (j + 1)..(i - 1) : Limb(a, k) = Limb(b, k)
    IN  BigTrim([i \in 1..Len(a) |->
                    (Limb(a, i) - Limb(b, i) - (IF borrow(i) THEN 1 ELSE 0)
                       + LimbBase) % LimbBase])

\* a < b
BigLess(a, b) ==
    IF Len(a) # Len(b) THEN Len(a) < Len(b)
    ELSE \E i \in 1..Len(a) :
             a[i] < b[i] /\ \A k \in (i + 1)..Len(a) : a[k] = b[k]

\* a * k for 0 <= k < 2^15: the low parts of the limb products, plus their
\* high parts one limb up
BigMulSmall(a, k) ==
    BigAdd(BigTrim([i \in 1..Len(a) |-> (a[i] * k) % LimbBase]),
           BigTrim(<<0>> \o [i \in 1..Len(a) |-> (a[i] * k) \div LimbBase]))

\* a * 2^n
BigShiftLeft(a, n) ==
    IF n <= 0 \/ Len(a) = 0 THEN a
    ELSE [i \in 1..(n \div LimbBits) |-> 0] \o BigMulSmall(a, 2 ^ (n % LimbBits))

\* floor(a / 2^n)
BigShiftRight(a, n) ==
    IF n <= 0 THEN a
    ELSE LET b == SubSeq(a, (n \div LimbBits) + 1, Len(a))
             low  == 2 ^ (n % LimbBits)
             high == 2 ^ (LimbBits - (n % LimbBits))
         IN  BigTrim([i \in 1..Len(b) |->
                         b[i] \div low + (Limb(b, i + 1) % low) * high])

BigOdd(a) == Len(a) > 0 /\ a[1] % 2 = 1

\* number of bits of n, for 0 <= n < 2^15
IntBitLen(n) ==
    CHOOSE b \in 0..LimbBits : n < 2 ^ b /\ (b = 0 \/ 2 ^ (b - 1) <= n)

BigBitLen(a) ==
    IF Len(a) = 0 THEN 0 ELSE (Len(a) - 1) * LimbBits + IntBitLen(a[Len(a)])

BigOne == <<1>>

\* the next limb of a quotient: the largest k with d * k <= r, for
\* r < d * 2^15 and a divisor whose top limb has its top bit set.  The top
\* two limbs of r over the top limb of d overestimate k by at most 2.
BigDigit(r, d) ==
    LET top      == Len(d)
        estimate == (Limb(r, top + 1) * LimbBase + Limb(r, top)) \div d[top]
        k        == IF estimate > LimbBase - 1 THEN LimbBase - 1 ELSE estimate
    IN  IF ~BigLess(r, BigMulSmall(d, k)) THEN k
        ELSE IF ~BigLess(r, BigMulSmall(d, k - 1)) THEN k - 1
        ELSE k - 2

\* one step of long division by d in base 2^15: the remainder moves up one
\* limb, and the quotient gets its next limb
BigDivStep(st, d) ==
    IF Len(st.r) = 0
    THEN [q |-> BigTrim(<<0>> \o st.q), r |-> <<>>]
    ELSE LET r2 == <<0>> \o st.r
             k  == BigDigit(r2, d)
         IN  [q |-> BigTrim(<<k>> \o st.q), r |-> BigSub(r2, BigMulSmall(d, k))]

\* limbs that hold a significand, the binary places a quotient of
\* significands is computed to, and the shift that sets the top bit of the
\* top limb of a significand
SignificandLimbs == 4
QuotientPlaces == SignificandLimbs * LimbBits
SignificandShift == SignificandLimbs * LimbBits - DoubleBits

\* floor(n * 2^60 / d) as q and the rest as r, for significands n and d of
\* 53 bits: the integer place, then four limbs of binary places
SignificandQuotient(n, d) ==
    LET dd == BigShiftLeft(d, SignificandShift)
        nn == BigShiftLeft(n, SignificandShift)
        s0 == IF BigLess(nn, dd) THEN [q |-> <<>>, r |-> nn]
                                 ELSE [q |-> BigOne, r |-> BigSub(nn, dd)]
    IN  BigDivStep(BigDivStep(BigDivStep(BigDivStep(s0, dd), dd), dd), dd)

\* rounding of m * 2^e (plus a non-zero fraction of 2^e when sticky) to a
\* double: the bits below the top 53 are dropped, and the kept part goes up
\* by one when the dropped part is above half, or is half with the kept part
\* odd
FRound(m, e, sticky) ==
    LET drop == BigBitLen(m) - DoubleBits
    IN  IF drop <= 0 THEN [m |-> m, e |-> e]
        ELSE LET kept == BigShiftRight(m, drop)
                 rest == BigSub(m, BigShiftLeft(kept, drop))
                 half == BigShiftLeft(BigOne, drop - 1)
                 up   == \/ BigLess(half, rest)
                         \/ rest = half /\ (sticky \/ BigOdd(kept))
                 m2   == IF up THEN BigAdd(kept, BigOne) ELSE kept
             IN  IF BigBitLen(m2) > DoubleBits
                 THEN [m |-> BigShiftRight(m2, 1), e |-> e + drop + 1]
                 ELSE [m |-> m2, e |-> e + drop]

\* float(n) for an integer 0 <= n < 2^31
FFromInt(n) == [m |-> BigFromInt(n), e |-> 0]

FIsZero(x) == x.m = <<>>

\* the same value with a significand of exactly 53 bits (x not zero)
FNorm(x) ==
    LET shift == DoubleBits - BigBitLen(x.m)
    IN  [m |-> BigShiftLeft(x.m, shift), e |-> x.e - shift]

\* x + y
FAdd(x, y) ==
    IF FIsZero(x) THEN y
    ELSE IF FIsZero(y) THEN x
    ELSE LET e == IF x.e < y.e THEN x.e ELSE y.e
         IN  FRound(BigAdd(BigShiftLeft(x.m, x.e - e), BigShiftLeft(y.m, y.e - e)), e, FALSE)

\* x * k for an integer 0 <= k < 2^15
FMulInt(x, k) == FRound(BigMulSmall(x.m, k), x.e, FALSE)

\* x / y for y not zero
FDiv(x, y) ==
    IF FIsZero(x) THEN x
    ELSE LET nx == FNorm(x)
             ny == FNorm(y)
             qr == SignificandQuotient(nx.m, ny.m)
         IN  FRound(qr.q, nx.e - ny.e - QuotientPlaces, qr.r # <<>>)

\* int(x): the integer part of x >= 0, below 2^31
FTrunc(x) ==
    IF x.e >= 0 THEN BigToInt(BigShiftLeft(x.m, x.e))
    ELSE BigToInt(BigShiftRight(x.m, 0 - x.e))

-----------------------------------------------------------------------------
(* The stores: S3 bucket (key -> object) and DynamoDB table ((PK,SK) -> item) *)

S3Put(bucket, key, body) == (key :> body) @@ bucket

S3Has(bucket, key) == key \in DOMAIN bucket

\* DynamoDBHelper.put_item: an upsert on the table's primary key (PK, SK)
put_item(table, item) == (<<item.PK, item.SK>> :> item) @@ table

\* the primary keys of a table under partition key pk whose SK begins with prefix
MatchingKeys(table, pk, prefix) ==
    {k \in DOMAIN table : k[1] = pk /\ StartsWith(k[2], prefix)}

\* DynamoDBHelper.query_by_pk_and_sk_begins_with: the items under pk whose
\* sort key begins with prefix, in ascending sort-key order
query_by_pk_and_sk_begins_with(table, pk, prefix) ==
    LET keys == MatchingKeys(table, pk, prefix)
        ordered == CHOOSE q \in [1..Cardinality(keys) -> keys] :
                      /\ \A i, j \in 1..Cardinality(keys) :
                            i < j => LexLess(q[i][2], q[j][2])
    IN  [i \in 1..Cardinality(keys) |-> table[ordered[i]]]

-----------------------------------------------------------------------------
(* Inputs *)

\* file names a user can upload (uploaded_file.name); the second one contains
\* the text "raw"
VideoNames == { <<"got", ".mp4">>, <<"raw", ".mp4">> }

\* chat_ui: the uploaded video is stored at videos/{uploaded_file.name}
InputVideoKey(name) == <<"videos", "/">> \o name

\* the double cv2 reports as CAP_PROP_FPS for a stream whose frame rate is the
\* rational num/den
NativeFps(num, den) == FDiv(FFromInt(num), FFromInt(den))

\* a file cv2 cannot open
UnopenedVideo == [kind |-> "video", opened |-> FALSE, fps |-> FFromInt(0), nframes |-> 0]

\* what cv2 can tell about an uploaded file: whether it opens, its native
\* frame rate and how many frames it decodes
Videos ==
    { [kind |-> "video", opened |-> TRUE, fps |-> NativeFps(f, 1), nframes |-> n] :
          f \in 1..MaxFps, n \in 0..MaxFrames }
    \cup { UnopenedVideo }

\* native frame rates num/den of the extraction runs: whole rates and the
\* NTSC rate 30000/1001 (29.97 frames per second)
NativeRates == { <<1, 1>>, <<2, 1>>, <<25, 1>>, <<30000, 1001>> }

\* frames of a video of d seconds at the rate num/den
FramesIn(d, rate) == (d * rate[1] + rate[2] - 1) \div rate[2]

\* a video of d seconds at a native rate
VideoOf(d, rate) ==
    [kind |-> "video", opened |-> TRUE, fps |-> NativeFps(rate[1], rate[2]),
     nframes |-> FramesIn(d, rate)]

\* the videos of the extraction runs
LongVideos ==
    { VideoOf(d, rate) : d \in 0..MaxSeconds, rate \in NativeRates } \cup { UnopenedVideo }

\* triggering events: detail.bucket.name and detail.object.key may be missing
\* ("" and <<>>), a correlation_id may be supplied
Events ==
    { [bucket |-> b, key |-> k, correlation_id |-> c] :
          b \in {"", BucketName},
          k \in {<<>>} \cup {InputVideoKey(n) : n \in VideoNames},
          c \in {NoCorrelationId, SuppliedCorrelationId} }

FaceNames == {"Ned"}

FaceLists == UNION { [1..n -> FaceNames] : n \in 0..MaxFaces }

\* responses of rekognition.recognize_celebrities; the last one has no
\* CelebrityFaces key
Responses ==
    { [CelebrityFaces |-> f] : f \in FaceLists } \cup { [UnrecognizedFaces |-> <<>>] }

\* where an invocation of ProcessImages can raise
ProcessFaults == {"none", "download", "recognize", "upload", "put_item"}

\* event.get(field)
EventGet(ev, field, default) ==
    IF field \in DOMAIN ev THEN ev[field] ELSE default

-----------------------------------------------------------------------------
(* BaseStepFunction *)

\* a constructor that always generates an identifier
BaseCorrelationIdFresh(ev, fresh) == fresh

\* BaseStepFunction.__init__: the correlation id of the event, or a fresh uuid4
\* (fresh is the value uuid4 returns)
BaseCorrelationId(ev, fresh) ==
    LET correlation_id_from_event == EventGet(ev, "correlation_id", NoCorrelationId)
    IN  IF correlation_id_from_event # NoCorrelationId
        THEN correlation_id_from_event
        ELSE fresh

-----------------------------------------------------------------------------
(* VideoCutterS3 *)

DISTRIBUTED_MAP_KEY == <<"maps", "/", "00_distributed_map.json">>

S3_FOLDER_OUTPUT_PREFIX == <<"results">>

\* the frame position taken for the frame time
FrameTimeIsPosition(frame_count, fps) == FTrunc(frame_count)

\* frame_time = int(self.frame_count / self.fps), on doubles
FrameTime(frame_count, fps) == FTrunc(FDiv(frame_count, fps))

\* video_capture.set(CAP_PROP_POS_FRAMES, frame_count): the frame the capture
\* is positioned at
FramePosition(frame_count) == FTrunc(frame_count)

\* a read that still finds a frame one past the last one
ReadSuccessPastEnd(video, frame_count) == FramePosition(frame_count) <= video.nframes

\* success of video_capture.read(): there is a frame at the position
ReadSuccess(video, frame_count) == FramePosition(frame_count) < video.nframes

\* a capture that is taken for opened whatever the file
IsOpenedUnchecked(video) == TRUE

\* video_capture.isOpened()
IsOpened(video) == video.opened

\* frame_interval = self.fps * frame_rate
FrameInterval(fps, frame_rate) == FMulInt(fps, frame_rate)

\* f"{self.s3_folder_output}/screenshot_{frame_time_str}.jpg"
ScreenshotKey(s3_folder_output, frame_time) ==
    s3_folder_output \o <<"/", "screenshot_">> \o Pad5(frame_time) \o <<".jpg">>

\* the frame cv2 writes to the temporary screenshot file
RawImage(position) ==
    [kind |-> "image", frame |-> position, drawn |-> <<>>, encoder |-> "cv2"]

\* frame_rate: Optional[int] = 1
DefaultFrameRate == 1

\* the frame_time a screenshot key carries between "screenshot_" and ".jpg"
ScreenshotFrameTime(key) ==
    LET i == LastIndexFrom(key, "screenshot_", Len(key))
    IN  ParseInt(SubSeq(key, i + 1, Len(key) - 1))

\* upload_distributed_map_to_s3: one work item per screenshot
DistributedMapItems(screenshots, s3_bucket_name, input_video_name) ==
    [i \in 1..Len(screenshots) |->
        [s3_bucket_name |-> s3_bucket_name,
         s3_key |-> screenshots[i],
         input_video_name |-> input_video_name,
         frame_time |-> ScreenshotFrameTime(screenshots[i])]]

upload_distributed_map_to_s3(screenshots, s3_bucket_name, input_video_name, s3_key, bucket) ==
    S3Put(bucket, s3_key,
          [kind |-> "manifest",
           items |-> DistributedMapItems(screenshots, s3_bucket_name, input_video_name)])

-----------------------------------------------------------------------------
(* ConvertVideoToImages *)

\* f"{self.S3_FOLDER_OUTPUT_PREFIX}/{input_video_name.split('.mp4')[0]}/raw"
S3FolderOutput(input_video_name) ==
    S3_FOLDER_OUTPUT_PREFIX \o <<"/">> \o SplitFirst(input_video_name, ".mp4") \o <<"/", "raw">>

\* the outcome of a state class method: whether it raised, the event it
\* returns, the stores it leaves, and whether the video cutter was used
Raise(ev, bucket, table, cutter) ==
    [raised |-> TRUE, event |-> ev, s3 |-> bucket, dynamo |-> table, cutter |-> cutter]

Return(ev, bucket, table, cutter) ==
    [raised |-> FALSE, event |-> ev, s3 |-> bucket, dynamo |-> table, cutter |-> cutter]

\* a validation that lets every key through
NoInputKeyUnchecked(s3_key_input_video) == FALSE

\* "if not s3_key_input_video": the key is None or empty
NoInputKey(s3_key_input_video) == s3_key_input_video = <<>>

\* "if not s3_bucket_name"
NoBucketName(s3_bucket_name) == s3_bucket_name = ""

\* the VideoCutterS3 object before the state class has built it; frame_rate
\* is the sampling interval extract_frames_and_upload_to_s3 will be called with
NoCutter(frame_rate) ==
    [phase |-> "none", frame_rate |-> frame_rate, video |-> UnopenedVideo,
     s3_bucket_name |-> "", input_video_name |-> <<>>, s3_folder_output |-> <<>>,
     frame_interval |-> FFromInt(0), frame_count |-> FFromInt(0), screenshots |-> <<>>]

\* convert_video_to_images up to the while loop of
\* extract_frames_and_upload_to_s3: the validations, the names, the cutter,
\* the download, the capture, and the check that the capture is opened.  The
\* outcome tells whether an error was raised, whether a cutter was built, and
\* the cutter as it enters the loop.
convert_video_to_images(ev, bucket, frame_rate) ==
    LET s3_bucket_name == EventGet(ev, "bucket", "")
        s3_key_input_video == EventGet(ev, "key", <<>>)
        input_video_name == SplitLast(s3_key_input_video, "/")
        s3_folder_output == S3FolderOutput(input_video_name)
        raise(cutter) == [raised |-> TRUE, cutter |-> cutter, capture |-> NoCutter(frame_rate)]
    IN  IF NoBucketName(s3_bucket_name) THEN raise(FALSE)
        ELSE IF NoInputKey(s3_key_input_video) THEN raise(FALSE)
        \* download_video_from_s3: get_object raises when the key is absent
        ELSE IF ~S3Has(bucket, s3_key_input_video) THEN raise(TRUE)
        ELSE IF ~IsOpened(bucket[s3_key_input_video]) THEN raise(TRUE)
        ELSE [raised |-> FALSE, cutter |-> TRUE,
              capture |-> [phase |-> "loop", frame_rate |-> frame_rate,
                           video |-> bucket[s3_key_input_video],
                           s3_bucket_name |-> s3_bucket_name,
                           input_video_name |-> input_video_name,
                           s3_folder_output |-> s3_folder_output,
                           frame_interval |->
                               FrameInterval(bucket[s3_key_input_video].fps, frame_rate),
                           frame_count |-> FFromInt(0),
                           screenshots |-> <<>>]]

\* a returned event that holds the new fields only
ConvertedEventReplaced(ev, cut) ==
    [input_video_name |-> cut.input_video_name,
     s3_bucket_name |-> cut.s3_bucket_name,
     s3_folder_output |-> cut.s3_folder_output,
     total_images |-> Len(cut.screenshots),
     s3_distributed_map_json |-> DISTRIBUTED_MAP_KEY]

\* event.update(...) at the end of convert_video_to_images
ConvertedEvent(ev, cut) ==
    [input_video_name |-> cut.input_video_name,
     s3_bucket_name |-> cut.s3_bucket_name,
     s3_folder_output |-> cut.s3_folder_output,
     total_images |-> Len(cut.screenshots),
     s3_distributed_map_json |-> DISTRIBUTED_MAP_KEY] @@ ev

-----------------------------------------------------------------------------
(* ImageDrawing and ProcessImages *)

\* ImageDrawing.draw_faces: one rectangle and one label per CelebrityFaces
\* match, drawn on the image; returns the image and the number of matches
ImageDrawing_draw_faces(image, response) ==
    IF "CelebrityFaces" \notin DOMAIN response
    THEN [image |-> image, total_celebrities |-> 0]
    ELSE [image |-> [image EXCEPT !.drawn = image.drawn \o response.CelebrityFaces],
          total_celebrities |-> Len(response.CelebrityFaces)]

\* ImageDrawing.save_image: PIL encodes the image into the output file
ImageDrawing_save_image(image) == [image EXCEPT !.encoder = "PIL"]

\* ProcessImages.draw_faces: draws and saves over the local screenshot; the
\* method has no return statement, so its caller receives None
ProcessImages_draw_faces(image, response) ==
    [image |-> ImageDrawing_save_image(ImageDrawing_draw_faces(image, response).image),
     returned |-> PyNone]

\* a processed key that is the raw key itself
ProcessedKeyIsRawKey(s3_key) == s3_key

\* self.s3_key.replace("raw", "processed")
_generate_s3_processed_image_key(s3_key) == StrReplace(s3_key, "raw", "processed")

\* f"{self.frame_time:05}"
SortKey(frame_time) == Pad5(frame_time)

\* the item save_results_in_dynamodb puts for the work item ev
FrameResultItem(ev, total_celebrities, response, s3_processed_image_key) ==
    [PK |-> EventGet(ev, "input_video_name", <<>>),
     SK |-> SortKey(EventGet(ev, "frame_time", 0)),
     celebrities |-> total_celebrities,
     rekognition_detect_face_response |-> response,
     s3_key_raw_image |-> EventGet(ev, "s3_key", <<>>),
     s3_key_processed_image |-> s3_processed_image_key,
     s3_bucket_name |-> EventGet(ev, "s3_bucket_name", "")]

\* a processing that uploads the frame under the processed key before it
\* asks the recognition service
process_images_uploading_first(ev, bucket, table, response, fault) ==
    LET s3_key == EventGet(ev, "s3_key", <<>>)
        s3_processed_image_key == _generate_s3_processed_image_key(s3_key)
    IN  IF fault = "download" \/ ~S3Has(bucket, s3_key)
        THEN Raise(ev, bucket, table, FALSE)
        ELSE
          LET drawn == ProcessImages_draw_faces(bucket[s3_key], response)
              uploaded == S3Put(bucket, s3_processed_image_key, drawn.image)
          IN  IF fault = "upload" THEN Raise(ev, bucket, table, FALSE)
              ELSE IF fault \in {"recognize", "put_item"}
                   THEN Raise(ev, uploaded, table, FALSE)
              ELSE
                Return([total_celebrities |-> drawn.returned,
                        rekognition_detect_face_response |-> response,
                        s3_processed_image_key |-> s3_processed_image_key] @@ ev,
                       uploaded,
                       put_item(table,
                                FrameResultItem(ev, drawn.returned, response,
                                                s3_processed_image_key)),
                       FALSE)

\* process_images on one work item; response is what Rekognition answers and
\* fault the call that raises, if any
process_images(ev, bucket, table, response, fault) ==
    LET s3_key == EventGet(ev, "s3_key", <<>>)
        s3_processed_image_key == _generate_s3_processed_image_key(s3_key)
    IN  IF fault = "download" \/ ~S3Has(bucket, s3_key)
        THEN Raise(ev, bucket, table, FALSE)
        ELSE IF fault = "recognize" THEN Raise(ev, bucket, table, FALSE)
        ELSE
          LET drawn == ProcessImages_draw_faces(bucket[s3_key], response)
              total_celebrities == drawn.returned
              uploaded == S3Put(bucket, s3_processed_image_key, drawn.image)
          IN  IF fault = "upload" THEN Raise(ev, bucket, table, FALSE)
              ELSE IF fault = "put_item" THEN Raise(ev, uploaded, table, FALSE)
              ELSE
                Return([total_celebrities |-> total_celebrities,
                        rekognition_detect_face_response |-> response,
                        s3_processed_image_key |-> s3_processed_image_key] @@ ev,
                       uploaded,
                       put_item(table,
                                FrameResultItem(ev, total_celebrities, response,
                                                s3_processed_image_key)),
                       FALSE)

-----------------------------------------------------------------------------
(* ArrangeFinalResults *)

SK_INITIAL_PREFIX == <<"RESULTS#">>

\* f"results/{sanitized_video_name}/arranged_results.json"
ArrangedResultsKey(pk) ==
    <<"results", "/">> \o SplitFirst(pk, ".mp4") \o <<"/", "arranged_results.json">>

load_results_from_dynamodb(table, pk) ==
    query_by_pk_and_sk_begins_with(table, pk, SK_INITIAL_PREFIX)

arrange_final_results(ev, bucket, table) ==
    LET pk == EventGet(ev, "input_video_name", <<>>)
        ARRANGED_RESULTS_S3_KEY == ArrangedResultsKey(pk)
        dynamodb_results == load_results_from_dynamodb(table, pk)
    IN  Return([arranged_results_s3_key |-> ARRANGED_RESULTS_S3_KEY] @@ ev,
               S3Put(bucket, ARRANGED_RESULTS_S3_KEY,
                     [kind |-> "results", data |-> dynamodb_results]),
               table, FALSE)

\* Success.process_success: reports the outcome, leaves the stores alone
process_success(ev, bucket, table) == Return(ev, bucket, table, FALSE)

-----------------------------------------------------------------------------
(* The state machine (create_state_machine_tasks / _definition) *)

\* the classes state_machine/__init__.py imports into the package namespace
\* that the Lambda entry point looks class_name up in
DispatchNamespace == {"ConvertVideoToImages", "ProcessImages", "Success", "Failure"}

\* params.class_name of each LambdaInvoke task of the main chain
TaskClass ==
    [Convert_Video_to_Images |-> "ConvertVideoToImages",
     ArrangeFinalResults |-> "ArrangeFinalResults",
     Process_Success |-> "Success"]

\* a chain that goes from the extraction straight to the aggregation
DefinitionWithoutMap ==
    [Convert_Video_to_Images |-> "ArrangeFinalResults",
     Map_Distributed |-> "ArrangeFinalResults",
     ArrangeFinalResults |-> "Process_Success",
     Process_Success |-> "Succeed"]

\* the .next() chain of the definition
Definition ==
    [Convert_Video_to_Images |-> "Map_Distributed",
     Map_Distributed |-> "ArrangeFinalResults",
     ArrangeFinalResults |-> "Process_Success",
     Process_Success |-> "Succeed"]

StartAt == "Convert_Video_to_Images"

\* a distributed map that may run no item at all
MaxConcurrencyZero == Cardinality({})

\* max_concurrency of the distributed map
MaxConcurrency == 100

\* item_reader of the distributed map
ItemReaderKey == <<"maps", "/", "00_distributed_map.json">>

\* the method the entry point calls on the resolved class
RunStateClass(class_name, ev, bucket, table) ==
    CASE class_name = "ArrangeFinalResults" -> arrange_final_results(ev, bucket, table)
      [] OTHER -> process_success(ev, bucket, table)

VARIABLES
    event,        \* the input of the execution
    s3,           \* the bucket: key -> object
    dynamo,       \* the table: <<PK, SK>> -> item
    sfnState,     \* the state of the definition the execution is in
    execStatus,   \* "NOT_STARTED", "RUNNING", "SUCCEEDED" or "FAILED"
    payload,      \* the JSON the execution carries from state to state
    mapItems,     \* the items the distributed map read from its item reader
    mapRead,      \* whether the distributed map has read its items
    branch,       \* per map item: "pending", "running", "succeeded", "failed"
    uuids,        \* how many uuid4 values have been generated
    invoked,      \* per class name: Lambda invocations made for it
    returned,     \* per class name: invocations whose method returned
    cutterUsed,   \* whether a VideoCutterS3 was put to work
    cutter,       \* the VideoCutterS3 of the ConvertVideoToImages invocation
    formatted,    \* the keys formatted for a pair of sampled times
    earlier,      \* the bucket and payload an earlier execution left (history)
    other,        \* the state of a second execution while the first one steps
    correlationIds \* <<class name, correlation id>> of every state object built

vars == <<event, s3, dynamo, sfnState, execStatus, payload, mapItems, mapRead,
          branch, uuids, invoked, returned, cutterUsed, cutter, formatted,
          earlier, other, correlationIds>>

\* the sampled times of the key-format runs: around each power of ten
RECURSIVE Pow10(_)
Pow10(d) == IF d = 0 THEN 1 ELSE 10 * Pow10(d - 1)

SampledTimePoints ==
    UNION {{Pow10(d) - 1, Pow10(d), Pow10(d) + 1} : d \in 0..MaxDigits}

\* no key formatted yet for the times t1 and t2
NoKeys(t1, t2) ==
    [t1 |-> t1, t2 |-> t2, done |-> FALSE,
     raw1 |-> <<>>, raw2 |-> <<>>, sk1 |-> <<>>, sk2 |-> <<>>]

\* no earlier execution
NoEarlier == [s3 |-> <<>>, payload |-> <<>>]

\* no second execution
NoOther == <<>>

ClassNames ==
    {"ConvertVideoToImages", "ProcessImages", "ArrangeFinalResults", "Success", "Failure"}

Init ==
    /\ event \in Events
    /\ \E name \in VideoNames, video \in Videos, uploaded \in BOOLEAN :
          s3 = IF uploaded THEN InputVideoKey(name) :> video ELSE <<>>
    /\ dynamo = <<>>
    /\ sfnState = StartAt
    /\ execStatus = "NOT_STARTED"
    /\ payload = event
    /\ mapItems = <<>>
    /\ mapRead = FALSE
    /\ branch = <<>>
    /\ uuids = 0
    /\ invoked = [c \in ClassNames |-> 0]
    /\ returned = [c \in ClassNames |-> 0]
    /\ cutterUsed = FALSE
    /\ cutter = NoCutter(DefaultFrameRate)
    /\ formatted = NoKeys(0, 0)
    /\ earlier = NoEarlier
    /\ other = NoOther
    /\ correlationIds = {}

\* the EventBridge rule (or a caller) starts the execution with the event
StartExecution ==
    /\ execStatus = "NOT_STARTED"
    /\ execStatus' = "RUNNING"
    /\ UNCHANGED <<other, earlier, formatted, event, s3, dynamo, sfnState, payload, mapItems, mapRead, branch,
                   uuids, invoked, returned, cutterUsed, cutter, correlationIds>>

\* the LambdaInvoke task Convert_Video_to_Images starts: the entry point builds
\* the ConvertVideoToImages object on the task input and calls
\* convert_video_to_images, which runs up to the while loop of the video
\* cutter.  The task has no Catch, so a raised error fails the execution.
ConvertVideoToImagesTask ==
    /\ execStatus = "RUNNING"
    /\ sfnState = StartAt
    /\ cutter.phase = "none"
    /\ invoked' = [invoked EXCEPT ![TaskClass[StartAt]] = @ + 1]
    /\ LET cid == BaseCorrelationId(payload, uuids + 1)
           out == convert_video_to_images(payload, s3, cutter.frame_rate)
       IN  /\ uuids' = IF cid = uuids + 1 THEN uuids + 1 ELSE uuids
           /\ correlationIds' = correlationIds \cup {<<TaskClass[StartAt], cid>>}
           /\ cutterUsed' = (cutterUsed \/ out.cutter)
           /\ IF out.raised
              THEN execStatus' = "FAILED" /\ UNCHANGED cutter
              ELSE cutter' = out.capture /\ UNCHANGED execStatus
    /\ UNCHANGED <<other, earlier, formatted, event, s3, dynamo, sfnState, payload, mapItems, mapRead, branch,
                   returned>>

\* a pass of the loop that uploads under a key of its own invocation
ExtractFrameUnderRunKey ==
    /\ cutter.phase = "loop"
    /\ ReadSuccess(cutter.video, cutter.frame_count)
    /\ LET frame_time == FrameTime(cutter.frame_count, cutter.video.fps)
           run_folder == cutter.s3_folder_output
                            \o <<"/">> \o Decimal(invoked["ConvertVideoToImages"])
           s3_key_upload == ScreenshotKey(run_folder, frame_time)
       IN  /\ s3' = S3Put(s3, s3_key_upload, RawImage(FramePosition(cutter.frame_count)))
           /\ cutter' = [cutter EXCEPT
                            !.screenshots = Append(@, s3_key_upload),
                            !.frame_count = FAdd(@, cutter.frame_interval)]
    /\ UNCHANGED <<other, earlier, formatted, event, dynamo, sfnState, execStatus, payload, mapItems,
                   mapRead, branch, uuids, invoked, returned, cutterUsed,
                   correlationIds>>

\* one pass of the while loop of extract_frames_and_upload_to_s3 in which
\* read() yields a frame: the frame is written, uploaded under its key, the
\* key is appended to screenshots and frame_count moves on
ExtractFrame ==
    /\ cutter.phase = "loop"
    /\ ReadSuccess(cutter.video, cutter.frame_count)
    /\ LET frame_time == FrameTime(cutter.frame_count, cutter.video.fps)
           s3_key_upload == ScreenshotKey(cutter.s3_folder_output, frame_time)
       IN  /\ s3' = S3Put(s3, s3_key_upload, RawImage(FramePosition(cutter.frame_count)))
           /\ cutter' = [cutter EXCEPT
                            !.screenshots = Append(@, s3_key_upload),
                            !.frame_count = FAdd(@, cutter.frame_interval)]
    /\ UNCHANGED <<other, earlier, formatted, event, dynamo, sfnState, execStatus, payload, mapItems, mapRead,
                   branch, uuids, invoked, returned, cutterUsed, correlationIds>>

\* the pass in which read() yields no frame: the loop breaks, the capture is
\* released and screenshots returned; convert_video_to_images uploads the
\* distributed map, updates the event and returns it, and the output
\* replaces the payload (output_path $.Payload)
ConvertVideoToImagesReturn ==
    /\ cutter.phase = "loop"
    /\ ~ReadSuccess(cutter.video, cutter.frame_count)
    /\ cutter' = [cutter EXCEPT !.phase = "released"]
    /\ s3' = upload_distributed_map_to_s3(cutter.screenshots, cutter.s3_bucket_name,
                                          cutter.input_video_name,
                                          DISTRIBUTED_MAP_KEY, s3)
    /\ payload' = ConvertedEvent(payload, cutter)
    /\ returned' = [returned EXCEPT ![TaskClass[StartAt]] = @ + 1]
    /\ sfnState' = Definition[sfnState]
    /\ execStatus' = IF Definition[sfnState] = "Succeed" THEN "SUCCEEDED" ELSE "RUNNING"
    /\ UNCHANGED <<other, earlier, formatted, event, dynamo, mapItems, mapRead, branch, uuids, invoked,
                   cutterUsed, correlationIds>>

\* a LambdaInvoke task of the main chain after the first: the entry point resolves class_name,
\* builds the state object on the task input and calls the method; the output
\* replaces the payload (output_path $.Payload).  No task has a Catch, so a
\* raised error fails the execution.
LambdaInvoke ==
    /\ execStatus = "RUNNING"
    /\ sfnState \in DOMAIN TaskClass \ {StartAt}
    /\ LET class_name == TaskClass[sfnState]
       IN  /\ invoked' = [invoked EXCEPT ![class_name] = @ + 1]
           /\ IF class_name \notin DispatchNamespace
              THEN /\ execStatus' = "FAILED"
                   /\ UNCHANGED <<s3, dynamo, sfnState, payload, uuids, returned,
                                  cutterUsed, correlationIds>>
              ELSE LET cid == BaseCorrelationId(payload, uuids + 1)
                       out == RunStateClass(class_name, payload, s3, dynamo)
                   IN  /\ uuids' = IF cid = uuids + 1 THEN uuids + 1 ELSE uuids
                       /\ correlationIds' = correlationIds \cup {<<class_name, cid>>}
                       /\ s3' = out.s3
                       /\ dynamo' = out.dynamo
                       /\ cutterUsed' = (cutterUsed \/ out.cutter)
                       /\ IF out.raised
                          THEN /\ execStatus' = "FAILED"
                               /\ UNCHANGED <<sfnState, payload, returned>>
                          ELSE /\ returned' = [returned EXCEPT ![class_name] = @ + 1]
                               /\ payload' = out.event
                               /\ sfnState' = Definition[sfnState]
                               /\ execStatus' = IF Definition[sfnState] = "Succeed"
                                                THEN "SUCCEEDED" ELSE "RUNNING"
    /\ UNCHANGED <<other, earlier, formatted, event, mapItems, mapRead, branch, cutter>>

\* the distributed map reads its items from the item reader's S3 object
MapReadItems ==
    /\ execStatus = "RUNNING"
    /\ sfnState = "Map_Distributed"
    /\ ~mapRead
    /\ mapRead' = TRUE
    /\ IF S3Has(s3, ItemReaderKey)
       THEN /\ mapItems' = s3[ItemReaderKey].items
            /\ branch' = [i \in 1..Len(s3[ItemReaderKey].items) |-> "pending"]
            /\ UNCHANGED execStatus
       ELSE /\ execStatus' = "FAILED"
            /\ UNCHANGED <<mapItems, branch>>
    /\ UNCHANGED <<other, earlier, formatted, event, s3, dynamo, sfnState, payload, uuids, invoked, returned,
                   cutterUsed, cutter, correlationIds>>

InFlight == {i \in DOMAIN branch : branch[i] = "running"}

\* the map starts the item processor on a pending item, at most
\* max_concurrency at a time
StartBranch(i) ==
    /\ execStatus = "RUNNING"
    /\ sfnState = "Map_Distributed"
    /\ mapRead
    /\ branch[i] = "pending"
    /\ Cardinality(InFlight) < MaxConcurrency
    /\ branch' = [branch EXCEPT ![i] = "running"]
    /\ invoked' = [invoked EXCEPT !["ProcessImages"] = @ + 1]
    /\ UNCHANGED <<other, earlier, formatted, event, s3, dynamo, sfnState, execStatus, payload, mapItems,
                   mapRead, uuids, returned, cutterUsed, cutter, correlationIds>>

\* a ProcessImages Lambda that saves the record before it uploads the image
ProcessImagesTaskSavingFirst(i) ==
    /\ branch[i] = "running"
    /\ \E response \in Responses, fault \in ProcessFaults :
          LET cid == BaseCorrelationId(mapItems[i], uuids + 1)
              out == process_images(mapItems[i], s3, dynamo, response, fault)
              saved == put_item(dynamo,
                                FrameResultItem(mapItems[i], PyNone, response,
                                    _generate_s3_processed_image_key(mapItems[i].s3_key)))
          IN  /\ uuids' = IF cid = uuids + 1 THEN uuids + 1 ELSE uuids
              /\ correlationIds' = correlationIds \cup {<<"ProcessImages", cid>>}
              /\ s3' = out.s3
              /\ dynamo' = IF fault = "upload" THEN saved ELSE out.dynamo
              /\ branch' = [branch EXCEPT ![i] = IF out.raised THEN "failed"
                                                                ELSE "succeeded"]
              /\ returned' = IF out.raised THEN returned
                             ELSE [returned EXCEPT !["ProcessImages"] = @ + 1]
    /\ UNCHANGED <<other, earlier, formatted, event, sfnState, execStatus, payload, mapItems, mapRead, invoked,
                   cutterUsed, cutter>>

\* the ProcessImages Lambda of a started item runs to its end; it does so
\* even when the execution has failed in the meantime
ProcessImagesTask(i) ==
    /\ branch[i] = "running"
    /\ \E response \in Responses, fault \in ProcessFaults :
          LET cid == BaseCorrelationId(mapItems[i], uuids + 1)
              out == process_images(mapItems[i], s3, dynamo, response, fault)
          IN  /\ uuids' = IF cid = uuids + 1 THEN uuids + 1 ELSE uuids
              /\ correlationIds' = correlationIds \cup {<<"ProcessImages", cid>>}
              /\ s3' = out.s3
              /\ dynamo' = out.dynamo
              /\ branch' = [branch EXCEPT ![i] = IF out.raised THEN "failed"
                                                                ELSE "succeeded"]
              /\ returned' = IF out.raised THEN returned
                             ELSE [returned EXCEPT !["ProcessImages"] = @ + 1]
    /\ UNCHANGED <<other, earlier, formatted, event, sfnState, execStatus, payload, mapItems, mapRead, invoked,
                   cutterUsed, cutter>>

\* no item is left to start
MapDoneWhenAllStarted == \A i \in DOMAIN branch : branch[i] # "pending"

\* every item has succeeded
MapDone == \A i \in DOMAIN branch : branch[i] = "succeeded"

\* the map ends when every item has succeeded; its result is added to the
\* payload (result_path $.Payload)
MapSucceed ==
    /\ execStatus = "RUNNING"
    /\ sfnState = "Map_Distributed"
    /\ mapRead
    /\ MapDone
    /\ sfnState' = Definition[sfnState]
    /\ payload' = [Payload |-> "MapResult"] @@ payload
    /\ UNCHANGED <<other, earlier, formatted, event, s3, dynamo, execStatus, mapItems, mapRead, branch, uuids,
                   invoked, returned, cutterUsed, cutter, correlationIds>>

\* a failed item fails the map (no failure is tolerated), and the map has no
\* Catch, so the execution fails
MapFail ==
    /\ execStatus = "RUNNING"
    /\ sfnState = "Map_Distributed"
    /\ \E i \in DOMAIN branch : branch[i] = "failed"
    /\ execStatus' = "FAILED"
    /\ UNCHANGED <<other, earlier, formatted, event, s3, dynamo, sfnState, payload, mapItems, mapRead, branch,
                   uuids, invoked, returned, cutterUsed, cutter, correlationIds>>

Next ==
    \/ StartExecution
    \/ ConvertVideoToImagesTask
    \/ ExtractFrame
    \/ ConvertVideoToImagesReturn
    \/ LambdaInvoke
    \/ MapReadItems
    \/ \E i \in DOMAIN branch : StartBranch(i)
    \/ \E i \in DOMAIN branch : ProcessImagesTask(i)
    \/ MapSucceed
    \/ MapFail

Spec == Init /\ [][Next]_vars

\* a step of Next can be taken: the guards of its actions
RunEnabled ==
    \/ execStatus = "NOT_STARTED"
    \/ execStatus = "RUNNING" /\ sfnState = StartAt /\ cutter.phase = "none"
    \/ cutter.phase = "loop"
    \/ execStatus = "RUNNING" /\ sfnState \in DOMAIN TaskClass \ {StartAt}
    \/ execStatus = "RUNNING" /\ sfnState = "Map_Distributed" /\ ~mapRead
    \/ /\ execStatus = "RUNNING" /\ sfnState = "Map_Distributed" /\ mapRead
       /\ Cardinality(InFlight) < MaxConcurrency
       /\ \E i \in DOMAIN branch : branch[i] = "pending"
    \/ \E i \in DOMAIN branch : branch[i] = "running"
    \/ execStatus = "RUNNING" /\ sfnState = "Map_Distributed" /\ mapRead /\ MapDone
    \/ /\ execStatus = "RUNNING" /\ sfnState = "Map_Distributed"
       /\ \E i \in DOMAIN branch : branch[i] = "failed"

\* every invoked Lambda returns or fails and the service takes every
\* transition it can take.  This is weak fairness of Next, WF_vars, with the
\* enabling condition written as the state predicate RunEnabled.
FairSpec == Spec /\ ([]<>~RunEnabled \/ []<><<Next>>_vars)

\* The key-format runs: the two places that format a frame time with :05
\* (the screenshot key of the video cutter and the sort key of the frame
\* record) applied to a pair of sampled times t1 < t2 around the powers of
\* ten up to MaxDigits digits.

InitKeys ==
    /\ \E name \in VideoNames :
          /\ event = [bucket |-> BucketName, key |-> InputVideoKey(name),
                      correlation_id |-> NoCorrelationId]
          /\ s3 = <<>>
    /\ dynamo = <<>>
    /\ sfnState = StartAt
    /\ execStatus = "NOT_STARTED"
    /\ payload = event
    /\ mapItems = <<>>
    /\ mapRead = FALSE
    /\ branch = <<>>
    /\ uuids = 0
    /\ invoked = [c \in ClassNames |-> 0]
    /\ returned = [c \in ClassNames |-> 0]
    /\ cutterUsed = FALSE
    /\ cutter = NoCutter(DefaultFrameRate)
    /\ \E t1 \in SampledTimePoints, t2 \in SampledTimePoints :
          /\ t1 < t2
          /\ formatted = NoKeys(t1, t2)
    /\ earlier = NoEarlier
    /\ other = NoOther
    /\ correlationIds = {}

\* the video cutter formats the screenshot keys of both times and
\* save_results_in_dynamodb their sort keys
FormatKeys ==
    /\ ~formatted.done
    /\ LET s3_folder_output == S3FolderOutput(SubSeq(event.key, 3, Len(event.key)))
       IN  formatted' = [formatted EXCEPT
                            !.done = TRUE,
                            !.raw1 = ScreenshotKey(s3_folder_output, formatted.t1),
                            !.raw2 = ScreenshotKey(s3_folder_output, formatted.t2),
                            !.sk1 = SortKey(formatted.t1),
                            !.sk2 = SortKey(formatted.t2)]
    /\ UNCHANGED <<other, earlier, event, s3, dynamo, sfnState, execStatus, payload, mapItems,
                   mapRead, branch, uuids, invoked, returned, cutterUsed, cutter,
                   correlationIds>>

NextKeys == FormatKeys

SpecKeys == InitKeys /\ [][NextKeys]_vars

\* The extraction runs: one execution on an uploaded video of up to
\* MaxSeconds seconds at a native rate, followed through the
\* ConvertVideoToImages task, with the video cutter sampling at an interval of
\* up to MaxFrameRate seconds.
InitExtraction ==
    /\ \E name \in VideoNames, video \in LongVideos :
          /\ event = [bucket |-> BucketName, key |-> InputVideoKey(name),
                      correlation_id |-> NoCorrelationId]
          /\ s3 = InputVideoKey(name) :> video
    /\ dynamo = <<>>
    /\ sfnState = StartAt
    /\ execStatus = "NOT_STARTED"
    /\ payload = event
    /\ mapItems = <<>>
    /\ mapRead = FALSE
    /\ branch = <<>>
    /\ uuids = 0
    /\ invoked = [c \in ClassNames |-> 0]
    /\ returned = [c \in ClassNames |-> 0]
    /\ cutterUsed = FALSE
    /\ \E frame_rate \in 1..MaxFrameRate : cutter = NoCutter(frame_rate)
    /\ formatted = NoKeys(0, 0)
    /\ earlier = NoEarlier
    /\ other = NoOther
    /\ correlationIds = {}

NextExtraction ==
    \/ StartExecution
    \/ ConvertVideoToImagesTask
    \/ ExtractFrame
    \/ ConvertVideoToImagesReturn

SpecExtraction == InitExtraction /\ [][NextExtraction]_vars

\* The repeated-extraction runs: when an execution has left the extraction,
\* the same triggering event starts another execution (the object is created
\* again, or the event is delivered again), at most MaxRuns in all; the
\* bucket and the table are those the earlier execution left.
RestartExecution ==
    /\ cutter.phase = "released" \/ execStatus = "FAILED"
    /\ invoked["ConvertVideoToImages"] >= 1
    /\ invoked["ConvertVideoToImages"] < MaxRuns
    /\ execStatus' = "RUNNING"
    /\ sfnState' = StartAt
    /\ payload' = event
    /\ cutter' = NoCutter(cutter.frame_rate)
    /\ mapItems' = <<>>
    /\ mapRead' = FALSE
    /\ branch' = <<>>
    /\ earlier' = [s3 |-> s3, payload |-> payload]
    /\ UNCHANGED <<other, formatted, event, s3, dynamo, uuids, invoked, returned, cutterUsed,
                   correlationIds>>

NextRetry ==
    \/ StartExecution
    \/ ConvertVideoToImagesTask
    \/ ExtractFrame
    \/ ConvertVideoToImagesReturn
    \/ RestartExecution

SpecRetry == InitExtraction /\ [][NextRetry]_vars

\* The runs in flight: two videos with different file names have been
\* uploaded and each upload has triggered an execution of the state machine.
\* The two executions share the bucket and the table.  The variables of the
\* execution hold the one that takes the next step, other holds the one that
\* waits; SwitchRun lets the other execution take the next steps.

\* file names of the uploads in flight: those of VideoNames, one that
\* contains the text "processed" and one that ends in ".mp4.mp4"
UploadedNames == VideoNames \cup { <<"processed", ".mp4">>, <<"got", ".mp4", ".mp4">> }

\* the videos of the uploads in flight, at one frame per second: the first
\* of one second, the second of one or two seconds
VideosInFlight == { <<VideoOf(1, <<1, 1>>), VideoOf(d, <<1, 1>>)>> : d \in {1, 2} }

\* the execution the EventBridge rule starts for an uploaded file
TriggeredEvent(name) ==
    [bucket |-> BucketName, key |-> InputVideoKey(name),
     correlation_id |-> NoCorrelationId]

\* an execution that has not started
WaitingExecution(ev) ==
    [event |-> ev, sfnState |-> StartAt, execStatus |-> "NOT_STARTED",
     payload |-> ev, mapItems |-> <<>>, mapRead |-> FALSE, branch |-> <<>>,
     cutter |-> NoCutter(DefaultFrameRate)]

InitTwoRuns ==
    /\ \E name1 \in UploadedNames, name2 \in UploadedNames, videos \in VideosInFlight :
          /\ name1 # name2
          /\ event = TriggeredEvent(name1)
          /\ other = WaitingExecution(TriggeredEvent(name2))
          /\ s3 = (InputVideoKey(name1) :> videos[1]) @@ (InputVideoKey(name2) :> videos[2])
    /\ dynamo = <<>>
    /\ sfnState = StartAt
    /\ execStatus = "NOT_STARTED"
    /\ payload = event
    /\ mapItems = <<>>
    /\ mapRead = FALSE
    /\ branch = <<>>
    /\ uuids = 0
    /\ invoked = [c \in ClassNames |-> 0]
    /\ returned = [c \in ClassNames |-> 0]
    /\ cutterUsed = FALSE
    /\ cutter = NoCutter(DefaultFrameRate)
    /\ formatted = NoKeys(0, 0)
    /\ earlier = NoEarlier
    /\ correlationIds = {}

\* the next steps are those of the other execution
SwitchRun ==
    /\ other' = [event |-> event, sfnState |-> sfnState, execStatus |-> execStatus,
                 payload |-> payload, mapItems |-> mapItems, mapRead |-> mapRead,
                 branch |-> branch, cutter |-> cutter]
    /\ event' = other.event
    /\ sfnState' = other.sfnState
    /\ execStatus' = other.execStatus
    /\ payload' = other.payload
    /\ mapItems' = other.mapItems
    /\ mapRead' = other.mapRead
    /\ branch' = other.branch
    /\ cutter' = other.cutter
    /\ UNCHANGED <<earlier, formatted, s3, dynamo, uuids, invoked, returned, cutterUsed,
                   correlationIds>>

NextTwoRuns ==
    \/ StartExecution
    \/ ConvertVideoToImagesTask
    \/ ExtractFrame
    \/ ConvertVideoToImagesReturn
    \/ LambdaInvoke
    \/ MapReadItems
    \/ \E i \in DOMAIN branch : StartBranch(i)
    \/ \E i \in DOMAIN branch : ProcessImagesTask(i)
    \/ MapSucceed
    \/ MapFail
    \/ SwitchRun

SpecTwoRuns == InitTwoRuns /\ [][NextTwoRuns]_vars

\* The repeated uploads: when the execution of an upload has ended, the user
\* uploads a video under the same file name again; the object is replaced
\* and the rule starts another execution on the same key, at most MaxRuns in
\* all.  The bucket and the table are those the earlier executions left.
\* the videos uploaded under the name, at one frame per second: of no frame,
\* of one and of two seconds
ReuploadedVideos == { VideoOf(d, <<1, 1>>) : d \in {0, 1, 2} }

InitReupload ==
    /\ \E name \in VideoNames, video \in ReuploadedVideos :
          /\ event = TriggeredEvent(name)
          /\ s3 = InputVideoKey(name) :> video
    /\ dynamo = <<>>
    /\ sfnState = StartAt
    /\ execStatus = "NOT_STARTED"
    /\ payload = event
    /\ mapItems = <<>>
    /\ mapRead = FALSE
    /\ branch = <<>>
    /\ uuids = 0
    /\ invoked = [c \in ClassNames |-> 0]
    /\ returned = [c \in ClassNames |-> 0]
    /\ cutterUsed = FALSE
    /\ cutter = NoCutter(DefaultFrameRate)
    /\ formatted = NoKeys(0, 0)
    /\ earlier = NoEarlier
    /\ other = NoOther
    /\ correlationIds = {}

\* chat_ui uploads the file again under videos/{uploaded_file.name} and the
\* "Object Created" event starts an execution
UploadAgain ==
    /\ execStatus \in {"SUCCEEDED", "FAILED"}
    /\ \A i \in DOMAIN branch : branch[i] # "running"
    /\ invoked["ConvertVideoToImages"] < MaxRuns
    /\ \E video \in ReuploadedVideos : s3' = S3Put(s3, event.key, video)
    /\ execStatus' = "RUNNING"
    /\ sfnState' = StartAt
    /\ payload' = event
    /\ cutter' = NoCutter(cutter.frame_rate)
    /\ mapItems' = <<>>
    /\ mapRead' = FALSE
    /\ branch' = <<>>
    /\ earlier' = [s3 |-> s3, payload |-> payload]
    /\ UNCHANGED <<other, formatted, event, dynamo, uuids, invoked, returned, cutterUsed,
                   correlationIds>>

NextReupload ==
    \/ StartExecution
    \/ ConvertVideoToImagesTask
    \/ ExtractFrame
    \/ ConvertVideoToImagesReturn
    \/ LambdaInvoke
    \/ MapReadItems
    \/ \E i \in DOMAIN branch : StartBranch(i)
    \/ \E i \in DOMAIN branch : ProcessImagesTask(i)
    \/ MapSucceed
    \/ MapFail
    \/ UploadAgain

SpecReupload == InitReupload /\ [][NextReupload]_vars

\* a step of NextExtraction can be taken: the execution waits to start, the
\* task waits to be invoked, or the video cutter is in its loop
ExtractionEnabled ==
    \/ execStatus = "NOT_STARTED"
    \/ execStatus = "RUNNING" /\ sfnState = StartAt /\ cutter.phase = "none"
    \/ cutter.phase = "loop"

\* an invoked Lambda keeps running: a step of the extraction that can be
\* taken is taken.  This is weak fairness of NextExtraction, WF_vars, with
\* the enabling condition written as the state predicate ExtractionEnabled.
FairSpecExtraction ==
    SpecExtraction /\ ([]<>~ExtractionEnabled \/ []<><<NextExtraction>>_vars)

-----------------------------------------------------------------------------
(* Properties *)

Terminal == execStatus \in {"SUCCEEDED", "FAILED"}

\* the items whose processor has been started
Dispatched == {i \in DOMAIN branch : branch[i] # "pending"}

\* the primary keys of the records stored under a video name
RecordsOf(table, pk) == {k \in DOMAIN table : k[1] = pk}

C2_Barrier ==
    (sfnState \in {"ArrangeFinalResults", "Process_Success", "Succeed"}
        \/ invoked["ArrangeFinalResults"] > 0)
    => /\ mapRead
       /\ \A i \in DOMAIN branch : branch[i] \in {"succeeded", "failed"}

\* C2 witness: the execution stands at the aggregation with three branches,
\* all of them ended
C2_Witness ==
    /\ sfnState = "ArrangeFinalResults"
    /\ Len(mapItems) = 3
    /\ \A i \in DOMAIN branch : branch[i] = "succeeded"

\* the execution stands at the aggregation after a fan-out without failure
AtAggregation ==
    /\ execStatus = "RUNNING"
    /\ sfnState = "ArrangeFinalResults"
    /\ mapRead
    /\ MapDone

\* C3: after a fan-out in which every item succeeded, the records the
\* aggregator's query returns for the video are exactly the records the item
\* processor wrote for it.
C3_QueryReturnsWrittenRecords ==
    AtAggregation =>
        LET pk == payload.input_video_name
            results == load_results_from_dynamodb(dynamo, pk)
        IN  {results[i] : i \in 1..Len(results)}
                = {dynamo[k] : k \in RecordsOf(dynamo, pk)}

\* C4, on the videos of Spec: after a fan-out without item failure, the number
\* of records stored for the video equals the number of work items of the
\* manifest.
C4_FanOutCompleteness ==
    (mapRead /\ MapDone /\ returned["ConvertVideoToImages"] = 1) =>
        /\ Cardinality(RecordsOf(dynamo, payload.input_video_name)) = Len(mapItems)
        /\ Len(mapItems) = Len(s3[ItemReaderKey].items)

\* C4 witness: a fan-out over two items or more has ended without failure
C4_Witness ==
    /\ mapRead
    /\ MapDone
    /\ Len(mapItems) >= 2
    /\ Cardinality(RecordsOf(dynamo, payload.input_video_name)) >= 2

\* C5: when the number of records the aggregator retrieves differs from the
\* total_images the extraction handed on, arrange_final_results raises and
\* leaves no arranged_results.json in the bucket.
C5_AggregatorRejectsMismatch ==
    AtAggregation =>
        LET pk == payload.input_video_name
            out == arrange_final_results(payload, s3, dynamo)
        IN  Len(load_results_from_dynamodb(dynamo, pk)) # payload.total_images
            => /\ out.raised
               /\ ~S3Has(out.s3, ArrangedResultsKey(pk))

\* the triggering event lacks the bucket name or the object key
EventLacksInput == event.key = <<>> \/ event.bucket = ""

C7_OneCorrelationId ==
    Cardinality({p[2] : p \in correlationIds}) <= 1

\* C8: processing a work item again, with the same recognition response,
\* leaves the bucket and the table as the first processing left them, and
\* adds no record.
C8_ProcessImagesIdempotent ==
    \A i \in DOMAIN mapItems, response \in Responses :
        LET once == process_images(mapItems[i], s3, dynamo, response, "none")
            twice == process_images(mapItems[i], once.s3, once.dynamo, response, "none")
        IN  ~once.raised =>
              /\ ~twice.raised
              /\ twice.s3 = once.s3
              /\ twice.dynamo = once.dynamo
              /\ Cardinality(DOMAIN twice.dynamo) = Cardinality(DOMAIN once.dynamo)
              /\ twice.event = once.event

\* C8 witness: an item has been processed, with a face drawn, and its record
\* and processed image are stored
C8_Witness ==
    \E i \in DOMAIN mapItems :
        /\ branch[i] = "succeeded"
        /\ <<mapItems[i].input_video_name, SortKey(mapItems[i].frame_time)>> \in DOMAIN dynamo
        /\ S3Has(s3, _generate_s3_processed_image_key(mapItems[i].s3_key))
        /\ s3[_generate_s3_processed_image_key(mapItems[i].s3_key)].drawn # <<>>

\* C10: an execution whose extraction yields N work items and in which no
\* item fails ends in success, and arranged_results.json then holds N frame
\* results, one per work item, in ascending frame_time order.
C10_EndToEnd ==
    (Terminal /\ returned["ConvertVideoToImages"] = 1 /\ mapRead /\ MapDone) =>
        LET key == ArrangedResultsKey(payload.input_video_name)
        IN  /\ execStatus = "SUCCEEDED"
            /\ S3Has(s3, key)
            /\ Len(s3[key].data) = Len(mapItems)
            /\ \A i \in 1..Len(mapItems) :
                  s3[key].data[i].SK = SortKey(mapItems[i].frame_time)

\* the video the execution was started on
InputVideo == s3[event.key]

\* the work items of the distributed map the extraction wrote
WorkItems == s3[DISTRIBUTED_MAP_KEY].items

\* the extraction has returned from a run at the default interval
ExtractedAtDefault ==
    cutter.phase = "released" /\ cutter.frame_rate = DefaultFrameRate

\* C11: a video of D whole seconds at an integer native rate fps >= 1, sampled
\* at the default interval of 1 second, gives exactly D work items, and the
\* k-th of them (k = 0..D-1) is the frame of index k * fps with
\* frame_time = floor(index / fps) = k.
C11_WholeSecondsGiveOneItemPerSecond ==
    \A D \in 0..MaxSeconds, rate \in {r \in NativeRates : r[2] = 1} :
        ExtractedAtDefault /\ InputVideo = VideoOf(D, rate)
        => /\ Len(cutter.screenshots) = D
           /\ Len(WorkItems) = D
           /\ \A k \in 0..(D - 1) :
                 /\ cutter.screenshots[k + 1] = ScreenshotKey(cutter.s3_folder_output, k)
                 /\ WorkItems[k + 1].frame_time = k
                 /\ WorkItems[k + 1].s3_key = cutter.screenshots[k + 1]
                 /\ s3[cutter.screenshots[k + 1]].frame = k * rate[1]

C11_Witness ==
    /\ ExtractedAtDefault
    /\ InputVideo = VideoOf(MaxSeconds, <<25, 1>>)
    /\ Len(WorkItems) = MaxSeconds

\* the frame_time of every key in screenshots, in the order of the passes
SampledTimes == [i \in 1..Len(cutter.screenshots) |->
                    ScreenshotFrameTime(cutter.screenshots[i])]

\* C12: the frame_time values of the work items of one extraction are pairwise
\* distinct, so no two sampled frames share a raw key, whatever the native
\* rate and the sampling interval.
C12_FrameTimesDistinct ==
    cutter.phase \in {"loop", "released"}
    => \A i, j \in 1..Len(cutter.screenshots) :
           i < j => /\ SampledTimes[i] # SampledTimes[j]
                    /\ cutter.screenshots[i] # cutter.screenshots[j]

\* the greatest time that :05 writes in five digits
LastPaddedTime == Pow10(5) - 1

\* C13 (as stated): for any two sampled times t1 < t2, the :05 key of t1
\* sorts lexicographically before that of t2, in the raw keys and in the
\* record sort keys
C13_PaddedKeysOrdered ==
    (formatted.done /\ formatted.t1 < formatted.t2)
        => /\ LexLess(formatted.raw1, formatted.raw2)
           /\ LexLess(formatted.sk1, formatted.sk2)

\* C13 (amended): for any two sampled times t1 < t2 <= 99999, the :05 key of
\* t1 sorts lexicographically before that of t2, in the raw keys and in the
\* record sort keys
C13_PaddedKeysOrderedUpTo99999 ==
    (formatted.done /\ formatted.t1 < formatted.t2 /\ formatted.t2 <= LastPaddedTime)
        => /\ LexLess(formatted.raw1, formatted.raw2)
           /\ LexLess(formatted.sk1, formatted.sk2)

C13_Witness ==
    /\ formatted.done
    /\ formatted.t1 = 9
    /\ formatted.t2 = 10
    /\ formatted.sk1 = <<"0", "0", "0", "0", "9">>
    /\ formatted.sk2 = <<"0", "0", "0", "1", "0">>
    /\ LexLess(formatted.raw1, formatted.raw2)

\* the raw frame objects in the bucket
RawFrameObjects == {k \in DOMAIN s3 : s3[k].kind = "image" /\ s3[k].encoder = "cv2"}

\* C14: the total_images the extraction hands to the state machine equals the
\* number of entries of the work manifest it wrote, which equals the number
\* of raw frame objects it persisted.
C14_TotalFramesIsManifestIsRawObjects ==
    cutter.phase = "released"
    => /\ payload.total_images = Len(WorkItems)
       /\ Len(WorkItems) = Cardinality(RawFrameObjects)

\* the extraction has ended the way an end of stream ends it: nothing was
\* raised, the loop stopped at the first position past the last frame, every
\* stored frame is a frame of the video, and the manifest lists the keys of
\* screenshots (none for a video without a readable frame)
ExtractionEndedNormally ==
    /\ execStatus = "RUNNING"
    /\ returned[TaskClass[StartAt]] = 1
    /\ FramePosition(cutter.frame_count) >= InputVideo.nframes
    /\ \A k \in RawFrameObjects : s3[k].frame < InputVideo.nframes
    /\ [i \in 1..Len(WorkItems) |-> WorkItems[i].s3_key] = cutter.screenshots
    /\ payload.total_images = Len(cutter.screenshots)
    /\ (InputVideo.nframes = 0 => WorkItems = <<>>)

\* C15: the extraction loop terminates for every finite video and every
\* positive sampling interval: the first read that yields no frame ends the
\* loop without an error, the capture is released and the keys produced so
\* far are returned; a video with no readable frame gives an empty manifest.
C15_ExtractionTerminatesNormally ==
    /\ (cutter.phase = "loop") ~> (cutter.phase = "released")
    /\ [](cutter.phase = "released" => ExtractionEndedNormally)

C15_Witness ==
    /\ cutter.phase = "released"
    /\ cutter.frame_rate = MaxFrameRate
    /\ InputVideo.nframes > 0
    /\ Len(cutter.screenshots) > 1
    /\ ExtractionEndedNormally

\* C16: if the video cannot be opened, the extraction raises before reading
\* any frame, and it has written no raw frame object and no work manifest.
C16_UnopenedVideoRaisesBeforeAnyWrite ==
    ~InputVideo.opened
    => /\ cutter.phase = "none"
       /\ RawFrameObjects = {}
       /\ ~S3Has(s3, DISTRIBUTED_MAP_KEY)
       /\ returned[TaskClass[StartAt]] = 0
       /\ (invoked[TaskClass[StartAt]] > 0 => execStatus = "FAILED" /\ cutterUsed)

C16_Witness ==
    /\ ~InputVideo.opened
    /\ invoked[TaskClass[StartAt]] = 1
    /\ cutterUsed
    /\ execStatus = "FAILED"
    /\ DOMAIN s3 = {event.key}

\* the number of detections in a response of the recognition service
Detections(response) ==
    IF "CelebrityFaces" \in DOMAIN response THEN Len(response.CelebrityFaces) ELSE 0

\* C17: the celebrity count stored in a frame record, and returned in the
\* output of the branch, equals the number of detections the recognition
\* service returned for the frame (0 when there is none); a frame without
\* detections still completes with its processed image and record written.
C17_CelebrityCountIsDetections ==
    /\ \A k \in DOMAIN dynamo :
          dynamo[k].celebrities = Detections(dynamo[k].rekognition_detect_face_response)
    /\ \A i \in DOMAIN mapItems, response \in Responses :
          LET out == process_images(mapItems[i], s3, dynamo, response, "none")
          IN  /\ ~out.raised
              /\ out.event.total_celebrities = Detections(response)
              /\ S3Has(out.s3, out.event.s3_processed_image_key)
              /\ <<mapItems[i].input_video_name, SortKey(mapItems[i].frame_time)>>
                     \in DOMAIN out.dynamo

\* C18: when the response of the recognition service has no detection, the
\* image the annotate-and-save step produces is identical to its input:
\* nothing is drawn and the stored processed image equals the raw image.
C18_NoDetectionNoChange ==
    \A i \in DOMAIN mapItems, response \in Responses :
        (Detections(response) = 0 /\ S3Has(s3, mapItems[i].s3_key)) =>
            LET raw == s3[mapItems[i].s3_key]
                out == process_images(mapItems[i], s3, dynamo, response, "none")
            IN  /\ ProcessImages_draw_faces(raw, response).image = raw
                /\ out.s3[out.event.s3_processed_image_key] = raw

\* the raw key of a work item with its last "raw" segment, the folder the
\* extraction appends to the output prefix of the video, replaced
RawFolderReplaced(s3_key) ==
    LET i == LastIndexFrom(s3_key, "raw", Len(s3_key))
    IN  SubSeq(s3_key, 1, i - 1) \o <<"processed">> \o SubSeq(s3_key, i + 1, Len(s3_key))

\* C19: for every work item, the processed-image key is the raw key of the
\* item with only the raw folder segment replaced by processed: the output
\* prefix of the video and the file name of the frame are kept, for every
\* video name.
C19_ProcessedKeyKeepsPrefixAndFile ==
    \A i \in DOMAIN mapItems :
        LET item == mapItems[i]
            key == _generate_s3_processed_image_key(item.s3_key)
        IN  /\ key = RawFolderReplaced(item.s3_key)
            /\ key = S3_FOLDER_OUTPUT_PREFIX \o <<"/">>
                         \o SplitFirst(item.input_video_name, ".mp4")
                         \o <<"/", "processed", "/", "screenshot_">>
                         \o Pad5(item.frame_time) \o <<".jpg">>

\* C20: a fan-out item that keeps failing ends failed for that item only:
\* every other item of the fan-out is still executed to a terminal state, so
\* an execution that has ended leaves no item of a read manifest unstarted.
C20_FailedItemFailsOnlyItself ==
    (Terminal /\ mapRead /\ \E i \in DOMAIN branch : branch[i] = "failed")
        => \A j \in DOMAIN branch : branch[j] # "pending"

\* the table after the fan-out has processed every item of items without a
\* failure (the order of the branches does not change the result)
RECURSIVE FanOutWithoutFailure(_, _, _)
FanOutWithoutFailure(items, bucket, table) ==
    IF items = <<>> THEN table
    ELSE LET out == process_images(Head(items), bucket, table,
                                   [CelebrityFaces |-> <<>>], "none")
         IN  FanOutWithoutFailure(Tail(items), out.s3, out.dynamo)

\* C4, on the videos of the extraction runs: after a fan-out without item
\* failure over the manifest an extraction wrote, the number of records
\* stored for the video equals the number of work items of the manifest.
C4_FanOutCompletenessAtNativeRates ==
    cutter.phase = "released"
    => Cardinality(RecordsOf(FanOutWithoutFailure(WorkItems, s3, dynamo),
                             cutter.input_video_name)) = Len(WorkItems)

\* C21: every started run eventually reaches a terminal state, given that
\* every stage invocation and every branch eventually returns or fails; no
\* run stays for ever in a stage, and no transition leaves a terminal state.
C21_RunReachesTerminal ==
    /\ (execStatus = "RUNNING") ~> Terminal
    /\ [][Terminal => UNCHANGED <<execStatus, sfnState, payload>>]_vars

C21_Witness ==
    /\ Terminal
    /\ mapRead
    /\ Len(mapItems) >= 2
    /\ \A i \in DOMAIN branch : branch[i] = "succeeded"
    /\ invoked["ArrangeFinalResults"] = 1

\* C22: at every reachable state at most max_concurrency branches of the run
\* are in flight, and every entry of the manifest is dispatched to a branch
\* exactly once in the fan-out: one branch per entry, one invocation per
\* dispatched entry, and no entry left undispatched when the run has ended.
C22_BoundedFanOutDispatchesEachEntryOnce ==
    /\ Cardinality(InFlight) <= MaxConcurrency
    /\ mapRead => /\ mapItems = s3[ItemReaderKey].items
                  /\ DOMAIN branch = DOMAIN mapItems
    /\ invoked["ProcessImages"] = Cardinality(Dispatched)
    /\ (Terminal /\ mapRead) => Dispatched = DOMAIN mapItems

\* C23: whenever a stage raises a fatal error (validation, unopenable video,
\* a failed fan-out, an aggregation error), the run ends failed with the
\* Failure handler executed, and it never reaches Success.
C23_FatalErrorRunsFailureHandler ==
    execStatus = "FAILED"
    => /\ invoked["Failure"] >= 1
       /\ invoked["Success"] = 0
       /\ returned["Success"] = 0

\* C24: when the triggering event lacks the bucket name or the object key,
\* the stage raises before any download, any object-store write and any
\* key-value write: no step of the run changes the bucket or the table.
C24_InvalidEventLeavesStoresUnchanged ==
    /\ [](EventLacksInput =>
             /\ ~cutterUsed
             /\ cutter.phase = "none"
             /\ dynamo = <<>>
             /\ \A k \in DOMAIN s3 : s3[k].kind = "video"
             /\ (invoked["ConvertVideoToImages"] > 0 => execStatus = "FAILED"))
    /\ [][EventLacksInput => UNCHANGED <<s3, dynamo>>]_vars

C24_Witness ==
    /\ event.bucket = ""
    /\ event.key # <<>>
    /\ event.key \in DOMAIN s3
    /\ invoked["ConvertVideoToImages"] = 1
    /\ returned["ConvertVideoToImages"] = 0
    /\ execStatus = "FAILED"

\* what the recognition service answers for a stored frame: the same answer
\* whenever it is asked about the same object
RecognizedIn(image) ==
    IF image.frame % 2 = 0 THEN [CelebrityFaces |-> <<>>]
    ELSE [CelebrityFaces |-> [n \in 1..1 |-> "Ned"]]

\* the stores after the branches of the items have completed one after the
\* other in the order given by the sequence of indices order
RECURSIVE FanOutInOrder(_, _, _, _)
FanOutInOrder(order, items, bucket, table) ==
    IF order = <<>> THEN [s3 |-> bucket, dynamo |-> table]
    ELSE LET item == items[Head(order)]
             out == process_images(item, bucket, table,
                                   RecognizedIn(bucket[item.s3_key]), "none")
         IN  FanOutInOrder(Tail(order), items, out.s3, out.dynamo)

\* C25: the branches of one fan-out work on distinct work items and write
\* pairwise disjoint object keys and record keys, so the bucket and the table
\* after the fan-out are the same whatever the order in which the branches
\* complete.
C25_BranchesWriteDisjointKeys ==
    cutter.phase = "released"
    => LET n == Len(WorkItems)
           forward == [i \in 1..n |-> i]
           backward == [i \in 1..n |-> n + 1 - i]
       IN  /\ \A i, j \in 1..n :
                 i < j =>
                     /\ WorkItems[i] # WorkItems[j]
                     /\ _generate_s3_processed_image_key(WorkItems[i].s3_key)
                            # _generate_s3_processed_image_key(WorkItems[j].s3_key)
                     /\ SortKey(WorkItems[i].frame_time) # SortKey(WorkItems[j].frame_time)
           /\ FanOutInOrder(forward, WorkItems, s3, dynamo)
                  = FanOutInOrder(backward, WorkItems, s3, dynamo)

\* C26: every stage the state machine invokes by class name resolves to a
\* class of the dispatch namespace of the state_machine package, so no stage
\* invocation fails on dispatch.
C26_EveryInvokedClassResolves ==
    \A class_name \in ClassNames :
        invoked[class_name] > 0 => class_name \in DispatchNamespace

\* C27: the extraction returns a payload that holds every field of its input
\* event unchanged plus input_video_name, s3_bucket_name, s3_folder_output,
\* total_images and the manifest key, and the fan-out keeps that payload: the
\* input of the aggregation still carries the input_video_name and the
\* total_images the extraction of the run produced.
C27_PayloadCarriedToAggregation ==
    returned["ConvertVideoToImages"] = 1
    => /\ \A f \in DOMAIN event : f \in DOMAIN payload /\ payload[f] = event[f]
       /\ payload.input_video_name = cutter.input_video_name
       /\ payload.input_video_name = SplitLast(event.key, "/")
       /\ payload.s3_bucket_name = event.bucket
       /\ payload.s3_folder_output = cutter.s3_folder_output
       /\ payload.total_images = Len(cutter.screenshots)
       /\ payload.s3_distributed_map_json = DISTRIBUTED_MAP_KEY
       /\ (sfnState = "ArrangeFinalResults" =>
              /\ "Payload" \in DOMAIN payload
              /\ EventGet(payload, "input_video_name", <<>>) = cutter.input_video_name
              /\ EventGet(payload, "total_images", PyNone) = Len(mapItems))

C27_Witness ==
    /\ sfnState = "ArrangeFinalResults"
    /\ invoked["ArrangeFinalResults"] = 1
    /\ payload.total_images >= 2
    /\ payload.correlation_id = SuppliedCorrelationId
    /\ payload.input_video_name = <<"raw", ".mp4">>

\* C28: a stage built from an event that carries a non-empty correlation_id
\* uses exactly that value; a stage built from an event without one (absent
\* or empty) generates a new identifier; a supplied one is never replaced.
C28_CorrelationIdFromEventOrFresh ==
    /\ \A p \in correlationIds :
          /\ p[1] = "ConvertVideoToImages" =>
                IF event.correlation_id # NoCorrelationId
                THEN p[2] = event.correlation_id
                ELSE p[2] \in 1..uuids
          /\ p[1] = "ProcessImages" =>
                /\ p[2] \in 1..uuids
                /\ \A i \in DOMAIN mapItems : "correlation_id" \notin DOMAIN mapItems[i]
    /\ \A ev \in Events \cup {mapItems[i] : i \in DOMAIN mapItems} :
          LET supplied == EventGet(ev, "correlation_id", NoCorrelationId)
              built == BaseCorrelationId(ev, uuids + 1)
          IN  IF supplied # NoCorrelationId THEN built = supplied
              ELSE built = uuids + 1 /\ built # SuppliedCorrelationId

C28_Witness ==
    /\ event.correlation_id = SuppliedCorrelationId
    /\ <<"ConvertVideoToImages", SuppliedCorrelationId>> \in correlationIds
    /\ \E p \in correlationIds : p[1] = "ProcessImages" /\ p[2] = 1
    /\ uuids >= 1

\* a later extraction of the same video is under way or has ended
LaterExtraction == invoked["ConvertVideoToImages"] >= 2 /\ cutter.phase # "none"

\* C29: running the extraction again on the same video with the same
\* interval writes the same raw frame keys and the same work manifest as the
\* first run (it overwrites, adds no key and no manifest entry) and reports
\* the same total_images: no step of the later run adds a key, and the later
\* run leaves the bucket and the payload the first run left.
C29_ExtractionRetrySafe ==
    /\ [][LaterExtraction => DOMAIN s3' = DOMAIN s3]_vars
    /\ [](LaterExtraction /\ cutter.phase = "released" =>
             /\ s3 = earlier.s3
             /\ WorkItems = earlier.s3[DISTRIBUTED_MAP_KEY].items
             /\ payload = earlier.payload
             /\ payload.total_images = earlier.payload.total_images)

C29_Witness ==
    /\ LaterExtraction
    /\ cutter.phase = "released"
    /\ returned["ConvertVideoToImages"] = 2
    /\ payload.total_images >= 2
    /\ Cardinality(RawFrameObjects) < payload.total_images
    /\ s3 = earlier.s3

\* C30: when the recognition call or the download of the raw frame fails in
\* a ProcessImages invocation, the invocation writes neither a processed
\* image nor a record: the bucket and the table are as they were before it.
C30_FailedRecognitionWritesNothing ==
    \A i \in DOMAIN mapItems, response \in Responses, fault \in {"download", "recognize"} :
        LET out == process_images(mapItems[i], s3, dynamo, response, fault)
        IN  /\ out.raised
            /\ out.s3 = s3
            /\ out.dynamo = dynamo

C30_Witness ==
    \E i \in DOMAIN mapItems :
        /\ branch[i] = "failed"
        /\ S3Has(s3, mapItems[i].s3_key)
        /\ ~S3Has(s3, _generate_s3_processed_image_key(mapItems[i].s3_key))
        /\ <<mapItems[i].input_video_name, SortKey(mapItems[i].frame_time)>>
               \notin DOMAIN dynamo
        /\ \E j \in DOMAIN mapItems : branch[j] = "succeeded"

\* C31: in every state, every record of the table names a processed image
\* key and a raw image key that are both objects of the bucket: the record
\* is put only after the annotated image has been uploaded.
C31_RecordsNameStoredObjects ==
    \A k \in DOMAIN dynamo :
        /\ S3Has(s3, dynamo[k].s3_key_processed_image)
        /\ S3Has(s3, dynamo[k].s3_key_raw_image)
        /\ s3[dynamo[k].s3_key_processed_image].kind = "image"
        /\ s3[dynamo[k].s3_key_raw_image].kind = "image"

\* a record has been put while another item failed
C31_Witness ==
    /\ DOMAIN dynamo # {}
    /\ \E i \in DOMAIN branch : branch[i] = "failed"

\* the raw frame the extraction stored for a work item, as cv2 wrote it
UnannotatedFrame(item) ==
    /\ S3Has(s3, item.s3_key)
    /\ s3[item.s3_key].kind = "image"
    /\ s3[item.s3_key].encoder = "cv2"
    /\ s3[item.s3_key].drawn = <<>>

\* C32: ProcessImages never overwrites a raw frame.  For every work item of
\* the manifest the processed image key differs from the raw key of the item
\* and of every other item; no step changes a raw frame object; a processing
\* and a second processing of an item leave its raw object as it was, so the
\* download of every invocation gets the frame without annotation.
C32_RawFrameNeverOverwritten ==
    /\ [](\A i \in DOMAIN mapItems :
            /\ \A j \in DOMAIN mapItems :
                  _generate_s3_processed_image_key(mapItems[i].s3_key) # mapItems[j].s3_key
            /\ UnannotatedFrame(mapItems[i])
            /\ \A r1 \in Responses, r2 \in Responses :
                  LET once == process_images(mapItems[i], s3, dynamo, r1, "none")
                      twice == process_images(mapItems[i], once.s3, once.dynamo, r2, "none")
                  IN  /\ ~once.raised /\ ~twice.raised
                      /\ once.s3[mapItems[i].s3_key] = s3[mapItems[i].s3_key]
                      /\ twice.s3[mapItems[i].s3_key] = s3[mapItems[i].s3_key])
    /\ [][\A k \in RawFrameObjects : S3Has(s3', k) /\ s3'[k] = s3[k]]_vars

\* every item of a manifest of two or more has been processed, one with a
\* face drawn on its processed image
C32_Witness ==
    /\ Len(mapItems) >= 2
    /\ \A i \in DOMAIN mapItems :
          /\ branch[i] = "succeeded"
          /\ UnannotatedFrame(mapItems[i])
    /\ \E i \in DOMAIN mapItems :
          s3[_generate_s3_processed_image_key(mapItems[i].s3_key)].drawn # <<>>

\* the work items the extraction of the execution wrote
OwnWorkItems(cut) ==
    DistributedMapItems(cut.screenshots, cut.s3_bucket_name, cut.input_video_name)

\* C33: with two executions in flight for two different videos, the fan-out
\* of each execution processes exactly the work items its own extraction
\* wrote: the items a distributed map has read are those of the manifest the
\* extraction of the same execution uploaded.
C33_FanOutReadsOwnManifest ==
    /\ mapRead /\ execStatus # "FAILED" => mapItems = OwnWorkItems(cutter)
    /\ other.mapRead /\ other.execStatus # "FAILED"
          => other.mapItems = OwnWorkItems(other.cutter)

\* the raw frame keys, processed image keys and arranged results key an
\* execution derives from its video name, for the frames of its extraction
DerivedKeys(cut) ==
    {cut.screenshots[i] : i \in DOMAIN cut.screenshots}
    \cup {_generate_s3_processed_image_key(cut.screenshots[i]) : i \in DOMAIN cut.screenshots}
    \cup {ArrangedResultsKey(cut.input_video_name)}

\* C34: executions for two different uploaded file names never write the same
\* object key: the raw frame keys, processed image keys and arranged results
\* keys derived from the two names are disjoint.
C34_RunsWriteDisjointKeys ==
    cutter.phase # "none" /\ other.cutter.phase # "none"
    => DerivedKeys(cutter) \cap DerivedKeys(other.cutter) = {}

\* the primary keys of the records of a manifest's work items
ManifestRecordKeys(items) ==
    {<<items[i].input_video_name, SortKey(items[i].frame_time)>> : i \in DOMAIN items}

====
